---- MODULE Spec2Model ----
(***************************************************************************)
(* Model of the digital-twin engine: the MemoryBank (memory_bank.py), the  *)
(* persona derivation and the DigitalAITwin operations (twin_core.py), the *)
(* MemoryItem / Persona records (models.py) and the GeminiClient provider  *)
(* wrapper with its offline stubs (gemini_client.py).                      *)
(*                                                                         *)
(* Representation.                                                         *)
(*  - A text is a sequence of tokens (strings); the token " " is white     *)
(*    space, so str.strip() is modelled by what it does.  An f-string is   *)
(*    the concatenation of its literal pieces and its interpolated texts.  *)
(*  - An embedding is a sequence of integers.  Similarities are kept as    *)
(*    exact fractions <<n, d>> (d > 0) of the signed square of the cosine, *)
(*    which orders vectors exactly as the cosine does; floating-point      *)
(*    rounding is not modelled.                                            *)
(*  - A Python exception that leaves an operation is the outcome "raise".  *)
(*  - MemoryItem.timestamp is not modelled: no operation reads it.         *)
(*  - A local variable of the code that is read more than once is bound    *)
(*    once, by \E v \in {e} in an action and by                            *)
(*    CHOOSE r \in {f(v) : v \in {e}} : TRUE (that is, f(e)) in an operator. *)
(***************************************************************************)
EXTENDS Integers, Sequences, FiniteSets, TLC

VARIABLES memories, persona, live, last

vars == <<memories, persona, live, last>>

(***************************************************************************)
(* Bounds of the model.                                                    *)
(***************************************************************************)
\* largest number of records the engine's store holds in the model
MaxMem == 4
\* largest number of records of the store exercised alone
MaxBank == 3
\* dimension of the offline pseudo-embedding (256 in gemini_client.py:74,
\* scaled down; any dimension behaves alike)
StubDim == 2

Min(a, b) == IF a <= b THEN a ELSE b
Max(a, b) == IF a >= b THEN a ELSE b

(***************************************************************************)
(* Texts.                                                                  *)
(***************************************************************************)
\* str.strip(): from the first to the last token that is not white space
Strip(t) ==
  LET solid == {i \in 1..Len(t) : t[i] # " "}
  IN IF solid = {} THEN <<>>
     ELSE SubSeq(t, CHOOSE i \in solid : \A j \in solid : i <= j,
                    CHOOSE i \in solid : \A j \in solid : i >= j)

\* s[:n] for n >= 0
Prefix(t, n) == SubSeq(t, 1, Min(n, Len(t)))

\* sep.join(parts), parts a sequence of texts
Join(parts, sep) ==
  LET J[i \in 0..Len(parts)] ==
        IF i = 0 THEN <<>>
        ELSE IF i = 1 THEN parts[1]
        ELSE J[i - 1] \o <<sep>> \o parts[i]
  IN J[Len(parts)]

(***************************************************************************)
(* models.py                                                               *)
(***************************************************************************)
VALID_MEMORY_TYPES == {"survey", "chat", "decision", "correction", "situation"}

\* (a variant: the type is not validated)
MemoryItemAccepts(type) == FALSE

\* MemoryItem(type, text, embedding, meta, permanent): __post_init__ raises
\* ValueError for a type outside VALID_MEMORY_TYPES
MemoryItemRaises(type) == type \notin VALID_MEMORY_TYPES

MemoryItem(type, text, embedding, meta, permanent) ==
  [type |-> type, text |-> text, embedding |-> embedding,
   meta |-> meta, permanent |-> permanent]

\* meta is a dict, modelled as a set of <<key, value>> pairs
NoMeta == {}
RoleMeta(r) == {<<"role", r>>}

(***************************************************************************)
(* memory_bank.py                                                          *)
(***************************************************************************)
\* np.dot(a, b) of vectors of one length
Dot(a, b) ==
  LET n == Min(Len(a), Len(b))
      D[i \in 0..n] == IF i = 0 THEN 0 ELSE D[i - 1] + a[i] * b[i]
  IN D[n]

NormSq(a) == Dot(a, a)

Sgn(x) == IF x > 0 THEN 1 ELSE IF x < 0 THEN -1 ELSE 0

SimZero == <<0, 1>>

\* np.dot(a, b) raises ValueError for 1-d arrays of different lengths; the
\* two early returns of _cosine_similarity come first
CosineRaises(a, b) ==
  /\ Len(a) # 0 /\ Len(b) # 0
  /\ NormSq(a) * NormSq(b) # 0
  /\ Len(a) # Len(b)

\* _cosine_similarity where it returns: the signed square of the cosine
CosineSimilarity(a, b) ==
  IF Len(a) = 0 \/ Len(b) = 0 THEN SimZero
  ELSE IF NormSq(a) * NormSq(b) = 0 THEN SimZero
  ELSE <<Sgn(Dot(a, b)) * Dot(a, b) * Dot(a, b), NormSq(a) * NormSq(b)>>

SimGt(s, t) == s[1] * t[2] > t[1] * s[2]
SimEq(s, t) == s[1] * t[2] = t[1] * s[2]

\* the truth value of an Optional[str]: None is <<>>, a string s is <<s>>
Truthy(f) == f # <<>> /\ f[1] # ""
NoFilter == <<>>

\* the loop of search: the positions of the records it scores, in store order
Scanned(mem, type_filter) ==
  LET keep(i) == ~(Truthy(type_filter) /\ mem[i].type # type_filter[1])
      F[i \in 0..Len(mem)] ==
        IF i = 0 THEN <<>>
        ELSE IF keep(i) THEN Append(F[i - 1], i) ELSE F[i - 1]
  IN F[Len(mem)]

\* list.sort(key=score, reverse=True) is stable: an element goes behind every
\* element whose score is not smaller.  score maps a position to its score
InsertDesc(sorted, x, score) ==
  LET smaller == {j \in 1..Len(sorted) : SimGt(score[x], score[sorted[j]])}
      at == IF smaller = {} THEN Len(sorted) + 1
            ELSE CHOOSE j \in smaller : \A i \in smaller : j <= i
  IN SubSeq(sorted, 1, at - 1) \o <<x>> \o SubSeq(sorted, at, Len(sorted))

SortDesc(xs, score) ==
  LET S[i \in 0..Len(xs)] ==
        IF i = 0 THEN <<>>
        ELSE CHOOSE r \in {InsertDesc(prev, xs[i], score) : prev \in {S[i - 1]}} : TRUE
  IN S[Len(xs)]

\* xs[:k] as Python slices it, k negative included
SliceTo(xs, k) ==
  IF k >= 0 THEN SubSeq(xs, 1, Min(k, Len(xs)))
  ELSE SubSeq(xs, 1, Max(0, Len(xs) + k))

\* search: raised, or the positions (in the store) of the records returned
Search(mem, q, top_k, type_filter) ==
  LET score == [i \in 1..Len(mem) |-> CosineSimilarity(q, mem[i].embedding)]
  IN CHOOSE r \in
       {IF \E j \in 1..Len(scanned) : CosineRaises(q, mem[scanned[j]].embedding)
        THEN [raised |-> TRUE, hits |-> <<>>]
        ELSE CHOOSE found \in
               {[raised |-> FALSE, hits |-> SliceTo(sorted, top_k)] :
                  sorted \in {SortDesc(scanned, score)}} : TRUE
          : scanned \in {Scanned(mem, type_filter)}} : TRUE

Items(mem, hits) == [j \in 1..Len(hits) |-> mem[hits[j]]]

\* (a variant: no lower bound, so list.pop counts a negative idx from the end)
DeleteAtUnguarded(mem, idx) ==
  IF -Len(mem) <= idx /\ idx < Len(mem)
  THEN SubSeq(mem, 1, idx % Len(mem)) \o SubSeq(mem, (idx % Len(mem)) + 2, Len(mem))
  ELSE mem

\* delete(idx)
DeleteAt(mem, idx) ==
  IF 0 <= idx /\ idx < Len(mem)
  THEN SubSeq(mem, 1, idx) \o SubSeq(mem, idx + 2, Len(mem))
  ELSE mem

\* clear(keep_permanent)
IsPermanent(m) == m.permanent

Permanent(mem) == SelectSeq(mem, IsPermanent)

\* (a variant: the flag is ignored)
ClearedAll(mem, keep_permanent) == <<>>

Cleared(mem, keep_permanent) == IF keep_permanent THEN Permanent(mem) ELSE <<>>

(***************************************************************************)
(* gemini_client.py                                                        *)
(***************************************************************************)
\* hash(t): some function of the text, fixed for the life of the process
Hash(t) ==
  LET H[i \in 0..Len(t)] == IF i = 0 THEN 0 ELSE (i * Len(t[i]) + H[i - 1]) % 7
  IN H[Len(t)]

\* the offline pseudo-embedding: random.Random(hash(t)) draws StubDim floats
\* of [0, 1), the same for the same text (scaled to small positive integers)
StubVec(t) == [i \in 1..StubDim |-> 1 + ((Hash(t) + i * i) % 3)]

\* what the provider does with one embed_content call: it raises (or gives a
\* result without .get), or it returns the list under "embedding" (empty
\* when the key is missing or null)
Raises == [raises |-> TRUE, embedding |-> <<>>]
Returns(v) == [raises |-> FALSE, embedding |-> v]

\* embed(texts): outs[i] is the provider's answer for texts[i]
Embed(texts, sdk, outs) ==
  IF texts = <<>> THEN <<>>
  ELSE IF /\ sdk
          /\ \A i \in 1..Len(texts) : ~outs[i].raises
          /\ \E i \in 1..Len(texts) : outs[i].embedding # <<>>
       THEN [i \in 1..Len(texts) |-> outs[i].embedding]
       ELSE [i \in 1..Len(texts) |-> StubVec(texts[i])]

\* user_message[:160]
StubPrefixLen == 160

StubReply(user_message) ==
  <<"[Stubbed Gemini Reply] Based on your persona and memories, here's a likely response: ">>
    \o Prefix(user_message, StubPrefixLen) \o <<" ...">>

\* chat(system_prompt, user_message): out is the provider's answer, raised
\* or the text of the response (text, or the joined parts of a candidate)
ChatRaises == [raises |-> TRUE, text |-> <<>>]
ChatReturns(t) == [raises |-> FALSE, text |-> t]

GeminiChat(system_prompt, user_message, sdk, out) ==
  IF sdk /\ ~out.raises /\ Strip(out.text) # <<>>
  THEN Strip(out.text)
  ELSE StubReply(user_message)

(***************************************************************************)
(* twin_core.py: survey answers                                            *)
(***************************************************************************)
\* an answer value: an int, None, or a str (a text)
IntV(n) == [t |-> "int", n |-> n, s |-> <<>>]
NoneV == [t |-> "none", n |-> 0, s |-> <<>>]
StrV(s) == [t |-> "str", n |-> 0, s |-> s]

Digits == <<"0", "1", "2", "3", "4", "5", "6", "7", "8", "9">>
IsDigit(tok) == \E d \in 1..10 : Digits[d] = tok
DigitVal(tok) == (CHOOSE d \in 1..10 : Digits[d] = tok) - 1

DecimalVal(t) ==
  LET D[i \in 0..Len(t)] == IF i = 0 THEN 0 ELSE 10 * D[i - 1] + DigitVal(t[i])
  IN D[Len(t)]

\* int(v): [ok, n]; not ok is TypeError (None) or ValueError (no number)
IntOf(v) ==
  IF v.t = "int" THEN [ok |-> TRUE, n |-> v.n]
  ELSE IF v.t = "none" THEN [ok |-> FALSE, n |-> 0]
  ELSE LET st == Strip(v.s)
           signed == st # <<>> /\ st[1] \in {"-", "+"}
           body == IF signed THEN Tail(st) ELSE st
       IN IF body # <<>> /\ \A i \in 1..Len(body) : IsDigit(body[i])
          THEN [ok |-> TRUE,
                n |-> IF signed /\ st[1] = "-" THEN 0 - DecimalVal(body)
                      ELSE DecimalVal(body)]
          ELSE [ok |-> FALSE, n |-> 0]

NatText(n) ==
  LET T[m \in 0..n] ==
        IF m < 10 THEN <<Digits[m + 1]>> ELSE T[m \div 10] \o <<Digits[(m % 10) + 1]>>
  IN T[n]

\* str(n) of an int, as in an f-string
IntText(n) == IF n < 0 THEN <<"-">> \o NatText(0 - n) ELSE NatText(n)

\* str(v)
StrOf(v) ==
  IF v.t = "int" THEN IntText(v.n)
  ELSE IF v.t = "none" THEN <<"None">>
  ELSE v.s

Has(answers, key) == key \in DOMAIN answers

\* str(answers.get(key, default)) with a str default
GetStr(answers, key, default) ==
  IF Has(answers, key) THEN StrOf(answers[key]) ELSE default

(***************************************************************************)
(* twin_core.py: persona derivation                                        *)
(***************************************************************************)
\* the default of geti and of _derive_mbti: the neutral midpoint
LikertDefault == 3

\* geti(key): int(answers.get(key)), the default on any exception
Geti(answers, key) ==
  IF Has(answers, key) /\ IntOf(answers[key]).ok THEN IntOf(answers[key]).n
  ELSE LikertDefault

ValueNames == <<"honesty", "efficiency", "loyalty", "creativity", "frugality">>

ValueKeys ==
  <<"val_honesty", "val_efficiency", "val_loyalty", "val_creativity", "val_frugality">>

\* values_map, in the order of its keys
ValuesMap(answers) == [i \in 1..Len(ValueKeys) |-> Geti(answers, ValueKeys[i])]

\* _top_values(values, n): sorted(items, by value, reverse=True)[:n], keys
TopValues(values, n) ==
  CHOOSE r \in
    {[j \in 1..Len(top) |-> <<ValueNames[top[j]]>>] :
       top \in {SliceTo(SortDesc([i \in 1..Len(values) |-> i],
                                 [i \in 1..Len(values) |-> <<values[i], 1>>]), n)}} : TRUE

\* _top_values_sentence(vals)
TopValuesSentence(vals) ==
  IF vals = <<>> THEN <<"pragmatism">>
  ELSE IF Len(vals) = 1 THEN vals[1]
  ELSE Join(SubSeq(vals, 1, Len(vals) - 1), ", ") \o <<" and ">> \o vals[Len(vals)]

\* list(dict.fromkeys(xs)): first occurrences, in order
Dedup(xs) ==
  LET D[i \in 0..Len(xs)] ==
        IF i = 0 THEN <<>>
        ELSE IF \E j \in 1..(i - 1) : xs[j] = xs[i] THEN D[i - 1]
        ELSE Append(D[i - 1], xs[i])
  IN D[Len(xs)]

MbtiKeys == <<"mbti_ei", "mbti_sn", "mbti_tf", "mbti_jp">>
MbtiHigh == <<"E", "N", "F", "P">>
MbtiLow == <<"I", "S", "T", "J">>

\* _derive_mbti calls int(answers.get(key, 3)) outside any try
DeriveMbtiRaises(answers) ==
  \E i \in 1..Len(MbtiKeys) :
    Has(answers, MbtiKeys[i]) /\ ~IntOf(answers[MbtiKeys[i]]).ok

MbtiAxis(answers, i) ==
  IF Has(answers, MbtiKeys[i]) THEN IntOf(answers[MbtiKeys[i]]).n ELSE LikertDefault

MbtiLetter(answers, i) ==
  IF MbtiAxis(answers, i) >= 4 THEN MbtiHigh[i]
  ELSE IF MbtiAxis(answers, i) <= 2 THEN MbtiLow[i] ELSE "X"

DeriveMbti(answers) == [i \in 1..Len(MbtiKeys) |-> MbtiLetter(answers, i)]

ToneStyle(answers) ==
  LET directness == Geti(answers, "tone_directness")
      formality == Geti(answers, "tone_formality")
      empathy == Geti(answers, "tone_empathy")
      msg_len == Geti(answers, "msg_length")
      bits ==
        <<IF directness >= 4 THEN <<"direct">>
          ELSE IF directness <= 2 THEN <<"diplomatic">> ELSE <<"balanced">>>>
        \o <<IF formality >= 4 THEN <<"formal">>
             ELSE IF formality <= 2 THEN <<"casual">> ELSE <<"semi-formal">>>>
        \o (IF empathy >= 4 THEN <<<<"empathetic">>>> ELSE <<>>)
        \o (IF msg_len >= 4 THEN <<<<"detailed">>>>
            ELSE IF msg_len <= 2 THEN <<<<"concise">>>> ELSE <<>>)
  IN Join(Dedup(bits), ", ")

HumorPhrase(answers) ==
  LET stripped == Strip(GetStr(answers, "humor_style", <<"light">>))
      humor_style == IF stripped # <<>> THEN stripped ELSE <<"light">>
      humor_freq == Geti(answers, "humor_frequency")
  IN IF humor_freq >= 4 THEN <<"often ">> \o humor_style
     ELSE IF humor_freq <= 2 THEN <<"rarely ">> \o humor_style
     ELSE humor_style

DecisionStyle(answers) ==
  LET data_vs_intuition == Geti(answers, "decision_data_vs_intuition")
      risk == Geti(answers, "risk_tolerance")
      speed == Geti(answers, "speed_vs_thoroughness")
      quadrant ==
        IF data_vs_intuition >= 4 /\ risk <= 2 THEN <<"data-first, risk-averse">>
        ELSE IF data_vs_intuition >= 4 /\ risk >= 4
             THEN <<"data-first, calculated risk-taker">>
        ELSE IF data_vs_intuition <= 2 /\ risk >= 4
             THEN <<"intuition-led, comfortable with risk">>
        ELSE IF data_vs_intuition <= 2 /\ risk <= 2 THEN <<"intuition-led, cautious">>
        ELSE <<"balances data and intuition">>
  IN IF speed >= 4 THEN quadrant \o <<", prefers speed">>
     ELSE IF speed <= 2 THEN quadrant \o <<", prefers thoroughness">>
     ELSE quadrant

PersonaSummary(answers, tone_style, top_vals, humor_phrase, decision_style) ==
  <<"Tone is ">> \o tone_style
  \o <<". Values center on ">> \o TopValuesSentence(top_vals)
  \o <<". Humor is ">> \o humor_phrase
  \o <<". Decision-making is ">> \o decision_style
  \o <<". Traits: agreeableness ">> \o IntText(Geti(answers, "agreeableness"))
  \o <<"/5, conscientiousness ">> \o IntText(Geti(answers, "conscientiousness"))
  \o <<"/5, openness ">> \o IntText(Geti(answers, "openness"))
  \o <<"/5, extraversion ">> \o IntText(Geti(answers, "extraversion"))
  \o <<"/5.">>

\* _derive_persona_fields raises exactly when _derive_mbti does
DeriveRaises(answers) == DeriveMbtiRaises(answers)

\* _derive_persona_fields(answers), where it returns
DerivePersonaFields(answers) ==
  CHOOSE derived \in
    {[tone |-> tone_style,
      values |-> Join(top_vals, ", "),
      humor |-> humor_phrase,
      decision_style |-> decision_style,
      persona_summary |->
        PersonaSummary(answers, tone_style, top_vals, humor_phrase, decision_style),
      mbti |-> DeriveMbti(answers)] :
       top_vals \in {TopValues(ValuesMap(answers), 3)},
       tone_style \in {ToneStyle(answers)},
       humor_phrase \in {HumorPhrase(answers)},
       decision_style \in {DecisionStyle(answers)}} : TRUE

(***************************************************************************)
(* twin_core.py: DigitalAITwin                                             *)
(***************************************************************************)
NoAnswers == [key \in {} |-> NoneV]

\* Persona(user_name=user_name) with the defaults of models.py
NewPersona(user_name) ==
  [user_name |-> user_name,
   persona_summary |-> <<>>,
   tone_style |-> <<"Balanced, friendly">>,
   values |-> <<"Pragmatic, honest">>,
   humor |-> <<"Light, situational">>,
   decision_style |-> <<"Evidence-driven with intuition">>,
   survey_json |-> NoAnswers,
   mbti |-> <<>>]

\* process_survey up to the call of _derive_persona_fields
SurveyStarted(p, answers) == [p EXCEPT !.survey_json = answers]

\* (a variant: humor is left as it was)
SurveyPersonaKeepsHumor(p, answers) ==
  CHOOSE q \in
    {[SurveyStarted(p, answers) EXCEPT
        !.persona_summary = derived.persona_summary,
        !.tone_style = derived.tone,
        !.values = derived.values,
        !.decision_style = derived.decision_style,
        !.mbti = derived.mbti] : derived \in {DerivePersonaFields(answers)}} : TRUE

\* process_survey, the assignments to self.persona
SurveyPersona(p, answers) ==
  CHOOSE q \in
    {[SurveyStarted(p, answers) EXCEPT
        !.persona_summary = derived.persona_summary,
        !.tone_style = derived.tone,
        !.values = derived.values,
        !.humor = derived.humor,
        !.decision_style = derived.decision_style,
        !.mbti = derived.mbti] : derived \in {DerivePersonaFields(answers)}} : TRUE

ExampleKeys == <<"example_decision1", "example_decision2", "example_decision3">>

\* (a variant: the persona summary itself is stored)
SurveySummaryIsPersonaSummary(p) == p.persona_summary

\* the summary text process_survey stores, from the persona it has just set
SurveySummaryText(p) ==
  <<"Tone: ">> \o p.tone_style \o <<". Values: ">> \o p.values
  \o <<". Decision Style: ">> \o p.decision_style
  \o <<". Humor: ">> \o p.humor \o <<". MBTI: ">> \o p.mbti \o <<".">>

\* the records process_survey is to create, in order: type, text, and the
\* text that is embedded
SurveyEntries(p, answers) ==
  LET catchphrase == Strip(GetStr(answers, "catchphrase", <<>>))
      example(i) == Strip(GetStr(answers, ExampleKeys[i], <<>>))
      E[i \in 0..Len(ExampleKeys)] ==
        IF i = 0 THEN <<>>
        ELSE IF example(i) # <<>>
             THEN Append(E[i - 1],
                         [type |-> "decision", text |-> example(i), src |-> example(i)])
             ELSE E[i - 1]
  IN (IF catchphrase # <<>>
      THEN <<[type |-> "survey", text |-> <<"Catchphrase: ">> \o catchphrase,
              src |-> catchphrase]>>
      ELSE <<>>)
     \o E[Len(ExampleKeys)]
     \o <<[type |-> "survey", text |-> SurveySummaryText(p),
           src |-> SurveySummaryText(p)]>>

\* the records process_survey adds; outs[i] is the provider's answer to the
\* i-th embed call
SurveyItems(p, answers, sdk, outs) ==
  CHOOSE items \in
    {[i \in 1..Len(entries) |->
        MemoryItem(entries[i].type, entries[i].text,
                   Embed(<<entries[i].src>>, sdk, <<outs[i]>>)[1], NoMeta, FALSE)] :
       entries \in {SurveyEntries(p, answers)}} : TRUE

\* m.text.lower().startswith("catchphrase:")
IsCatchphrase(m) ==
  m.type = "survey" /\ m.text # <<>> /\ m.text[1] \in {"Catchphrase: ", "catchphrase: "}

\* _catchphrases(): m.text.split(":", 1)[-1].strip()
Catchphrases(mem) ==
  LET C[i \in 0..Len(mem)] ==
        IF i = 0 THEN <<>>
        ELSE IF IsCatchphrase(mem[i]) THEN Append(C[i - 1], Strip(Tail(mem[i].text)))
        ELSE C[i - 1]
  IN C[Len(mem)]

\* m.type.upper()
Upper(type) ==
  CASE type = "survey" -> "SURVEY"
    [] type = "chat" -> "CHAT"
    [] type = "decision" -> "DECISION"
    [] type = "correction" -> "CORRECTION"
    [] type = "situation" -> "SITUATION"
    [] OTHER -> type

\* the size of the slices [:5] of chat and simulate_decision
LineCap == 5
CatchCap == 2
SurveyTopK == 2
SurveyLineCap == 3

ChatContextLines(items) ==
  [j \in 1..Len(items) |-> <<"- ", Upper(items[j].type), ": ">> \o items[j].text]

ChatStyleRules(p, catchphrases) ==
  <<"Respond in first person as ">> \o p.user_name \o <<". Keep the tone ">>
  \o p.tone_style
  \o <<". Be concise (1-3 sentences) unless detail was requested. Avoid asking questions unless critical. Prefer decisive language.">>
  \o (IF catchphrases # <<>>
      THEN <<" Optionally weave in these catchphrase(s) naturally: ">>
           \o Join(SliceTo(catchphrases, CatchCap), ", ") \o <<".">>
      ELSE <<>>)

ChatSystemPrompt(p, context_lines, catchphrases) ==
  <<"You are the AI twin of ">> \o p.user_name \o <<".\n", "Persona: ">>
  \o p.persona_summary \o <<"\n", "Core Values: ">> \o p.values
  \o <<"\n", "Humor: ">> \o p.humor \o <<"\n", "Relevant Memories:\n">>
  \o Join(SliceTo(context_lines, LineCap), "\n") \o <<"\n\n", "Output style rules:\n">>
  \o ChatStyleRules(p, catchphrases)

\* (a variant: the search runs before the user message is added)
ChatCorpusBeforeAdd(mem, message, q_emb) == mem

\* the store chat searches: the user message is added first
ChatCorpus(mem, message, q_emb) ==
  Append(mem, MemoryItem("chat", message, q_emb, RoleMeta("user"), FALSE))

\* user_prefs: the chats found whose meta role is not "assistant"
UserPrefs(mem, hits) ==
  LET U[j \in 0..Len(hits)] ==
        IF j = 0 THEN <<>>
        ELSE IF <<"role", "assistant">> \in mem[hits[j]].meta THEN U[j - 1]
        ELSE Append(U[j - 1], hits[j])
  IN U[Len(hits)]

DecisionContextLines(items) == [j \in 1..Len(items) |-> <<"- ">> \o items[j].text]

\* (a variant: the header is written whether or not there are lines)
PromptBlockAlways(header, lines, cap) ==
  <<header>> \o Join(SliceTo(lines, cap), "\n") \o <<"\n">>

\* one optional block of the prompt of simulate_decision: header, at most
\* cap lines, a line break; nothing when there are no lines
PromptBlock(header, lines, cap) ==
  IF lines # <<>> THEN <<header>> \o Join(SliceTo(lines, cap), "\n") \o <<"\n">>
  ELSE <<>>

DecisionsHeader == "Relevant Past Decisions:\n"
SurveyHeader == "Survey Context:\n"
PrefsHeader == "Past Preferences from Chats (user statements):\n"

DecisionStyleRules(p, catchphrases) ==
  <<"Respond in first person as ">> \o p.user_name
  \o <<". State the decision clearly in the first sentence, then give 1-2 sentences of reasoning. No follow-up questions. Honor stated preferences if applicable.">>
  \o (IF catchphrases # <<>>
      THEN <<" Optionally include catchphrase(s) tastefully: ">>
           \o Join(SliceTo(catchphrases, CatchCap), ", ") \o <<".">>
      ELSE <<>>)

DecisionSystemPrompt(p, decisions, survey, prefs, catchphrases) ==
  <<"You are the AI twin of ">> \o p.user_name \o <<".\n", "Persona Summary: ">>
  \o p.persona_summary \o <<"\n", "Decision-Making Style: ">> \o p.decision_style
  \o <<"\n">>
  \o PromptBlock(DecisionsHeader, DecisionContextLines(decisions), LineCap)
  \o PromptBlock(SurveyHeader, DecisionContextLines(survey), SurveyLineCap)
  \o PromptBlock(PrefsHeader, SliceTo(DecisionContextLines(prefs), LineCap), LineCap)
  \o <<"Output style rules:\n">> \o DecisionStyleRules(p, catchphrases)

\* (a variant: the decision is put in front of the store)
DecisionStoredInFront(mem, reply, emb, store) ==
  IF store THEN <<MemoryItem("decision", reply, emb, NoMeta, FALSE)>> \o mem ELSE mem

\* the store after simulate_decision has its reply
DecisionStored(mem, reply, emb, store) ==
  IF store THEN Append(mem, MemoryItem("decision", reply, emb, NoMeta, FALSE)) ELSE mem

(***************************************************************************)
(* State: the engine's store (MemoryBank._memories), its Persona, whether  *)
(* the client has a configured SDK (_have_sdk and _configured), and the    *)
(* last call made with what it was given, what it returned and what it     *)
(* read on the way.                                                        *)
(***************************************************************************)
NoCall ==
  [op |-> "none", outcome |-> "none", answers |-> NoAnswers, arg |-> <<>>, k |-> 0,
   store |-> FALSE, filter |-> <<>>, pre |-> <<>>, prePersona |-> NewPersona(<<"You">>),
   ret |-> <<>>, corpus |-> <<>>, hits |-> <<>>, prompt |-> <<>>,
   decisions |-> <<>>, survey |-> <<>>, prefs |-> <<>>,
   texts |-> <<>>, outs |-> <<>>, vecs |-> <<>>]

Outcome(raised) == IF raised THEN "raise" ELSE "ok"

\* DigitalAITwin(): a default Persona, an empty MemoryBank, a GeminiClient
\* without a key
Init ==
  /\ memories = <<>>
  /\ persona = NewPersona(<<"You">>)
  /\ live = FALSE
  /\ last = NoCall

(***************************************************************************)
(* The store alone.                                                        *)
(***************************************************************************)
\* the records added to the store exercised alone: a type and an embedding
\* (zero-length, zero-norm, parallel, orthogonal, of another dimension); the
\* type "note" is not a memory type
BankItems ==
  {<<"chat", <<1, 0>>>>, <<"chat", <<2, 0>>>>, <<"chat", <<0, 1>>>>,
   <<"chat", <<1, 0, 0>>>>, <<"decision", <<1, 1>>>>, <<"decision", <<0, 0>>>>,
   <<"decision", <<>>>>, <<"note", <<1, 0>>>>}
QueryVectors == {<<0, 0>>, <<1, 0>>, <<0, 0, 1>>}
TopKs == {-1, 0, 1, 2}
Filters == {NoFilter, <<"decision">>}

\* memories.add(MemoryItem(type=type, text=..., embedding=embedding,
\* permanent=permanent)): the constructor raises before add is called
BankAdd(type, embedding, permanent) ==
  /\ MemoryItemRaises(type) \/ Len(memories) < MaxBank
  /\ memories' =
       IF MemoryItemRaises(type) THEN memories
       ELSE Append(memories, MemoryItem(type, <<"m">>, embedding, NoMeta, permanent))
  /\ last' = [NoCall EXCEPT !.op = "add", !.outcome = Outcome(MemoryItemRaises(type)),
                            !.arg = <<type>>, !.pre = memories]
  /\ UNCHANGED <<persona, live>>

\* memories.search(q, top_k, type_filter)
BankSearch(q, top_k, type_filter) ==
  LET found == Search(memories, q, top_k, type_filter)
  IN /\ last' = [NoCall EXCEPT !.op = "search", !.outcome = Outcome(found.raised),
                               !.arg = q, !.k = top_k, !.filter = type_filter,
                               !.pre = memories, !.hits = found.hits]
     /\ UNCHANGED <<memories, persona, live>>

\* memories.delete(idx)
BankDelete(idx) ==
  /\ memories' = DeleteAt(memories, idx)
  /\ last' = [NoCall EXCEPT !.op = "delete", !.outcome = "ok", !.k = idx,
                            !.pre = memories]
  /\ UNCHANGED <<persona, live>>

\* memories.clear(keep_permanent)
BankClear(keep_permanent) ==
  /\ memories' = Cleared(memories, keep_permanent)
  /\ last' = [NoCall EXCEPT !.op = "clear", !.outcome = "ok", !.store = keep_permanent,
                            !.pre = memories]
  /\ UNCHANGED <<persona, live>>

NextBank ==
  \/ \E item \in BankItems : BankAdd(item[1], item[2], item[2] \in {<<0, 1>>, <<>>})
  \/ \E q \in QueryVectors, top_k \in TopKs, type_filter \in Filters :
       BankSearch(q, top_k, type_filter)
  \/ \E idx \in -MaxBank..MaxBank : BankDelete(idx)
  \/ \E keep_permanent \in BOOLEAN : BankClear(keep_permanent)

SpecBank == Init /\ [][NextBank]_vars

(***************************************************************************)
(* The survey alone: process_survey with the offline client on an empty    *)
(* store, the name set in the settings page, the store emptied in between. *)
(* (Spec below submits surveys to stores that hold records.)               *)
(***************************************************************************)
LikertKeys ==
  {"tone_directness", "tone_formality", "tone_empathy", "msg_length",
   "humor_frequency", "decision_data_vs_intuition", "risk_tolerance",
   "speed_vs_thoroughness", "agreeableness", "conscientiousness", "openness",
   "extraversion", "val_honesty", "val_efficiency", "val_loyalty",
   "val_creativity", "val_frugality", "mbti_ei", "mbti_sn", "mbti_tf", "mbti_jp"}

\* a Likert answer: low, high, null, not a number, a number in a string
LikertValues == {IntV(1), IntV(4), NoneV, StrV(<<"x">>), StrV(<<" ", "2">>)}

\* the answers of the wizard with every slider at n
FullAnswers(n) ==
  [key \in LikertKeys \cup {"humor_style", "catchphrase"} \cup
           {ExampleKeys[i] : i \in 1..Len(ExampleKeys)} |->
     IF key \in LikertKeys THEN IntV(n)
     ELSE IF key = "humor_style" THEN StrV(<<"dry">>)
     ELSE IF key = "catchphrase" THEN StrV(<<"Ship", " ", "it.">>)
     ELSE IF key = "example_decision2" THEN StrV(<<>>)
     ELSE StrV(<<"took", " ", key>>)]

With(answers, key, v) ==
  [k \in DOMAIN answers \cup {key} |-> IF k = key THEN v ELSE answers[k]]

FreeTexts == {StrV(<<>>), StrV(<<" ">>), StrV(<<" ", "go", " ">>), NoneV}

\* one key of each group of the derivation
VariedKeys ==
  {"tone_directness", "msg_length", "humor_frequency", "decision_data_vs_intuition",
   "speed_vs_thoroughness", "val_creativity", "extraversion", "mbti_ei", "mbti_jp"}

SurveyAnswers ==
  {FullAnswers(n) : n \in {1, 3, 5}}
  \cup {With(NoAnswers, key, v) : key \in VariedKeys, v \in LikertValues}
  \cup {With(NoAnswers, "catchphrase", c) : c \in FreeTexts}
  \cup {With(FullAnswers(4), "example_decision3", e) : e \in FreeTexts}
  \cup {With(FullAnswers(2), "humor_style", h) : h \in FreeTexts \cup {IntV(5)}}

\* the i-th embed call of a call gets the answer pattern[i]
NoProvider == [i \in 1..5 |-> Raises]

\* twin.process_survey(answers)
DoSurvey(answers, outs) ==
  /\ IF DeriveRaises(answers)
     THEN /\ persona' = SurveyStarted(persona, answers)
          /\ memories' = memories
     ELSE \E p \in {SurveyPersona(persona, answers)} :
            /\ persona' = p
            /\ memories' = memories \o SurveyItems(p, answers, live, outs)
  /\ last' = [NoCall EXCEPT !.op = "survey", !.outcome = Outcome(DeriveRaises(answers)),
                            !.answers = answers, !.pre = memories,
                            !.prePersona = persona]
  /\ UNCHANGED live

\* SettingsPage.apply: persona.user_name = text.strip() or "You"
SetUserName(text) ==
  /\ persona' = [persona EXCEPT
                   !.user_name = IF Strip(text) # <<>> THEN Strip(text) ELSE <<"You">>]
  /\ last' = [NoCall EXCEPT !.op = "name", !.outcome = "ok", !.arg = text,
                            !.pre = memories, !.prePersona = persona]
  /\ UNCHANGED <<memories, live>>

NameInputs == {<<" ">>, <<"Ann", " ">>}

NextSurvey ==
  \/ \E answers \in SurveyAnswers : memories = <<>> /\ DoSurvey(answers, NoProvider)
  \/ \E text \in NameInputs : SetUserName(text)
  \/ \E keep_permanent \in BOOLEAN : BankClear(keep_permanent)

SpecSurvey == Init /\ [][NextSurvey]_vars

(***************************************************************************)
(* The engine: surveys, chats and simulated decisions against a provider   *)
(* that may be absent, fail, answer with nothing, or answer.               *)
(***************************************************************************)
Messages == {<<"hi">>, <<"go", " ">>}
Situations == {<<"buy", "?">>}
ChatKs == {1, 5}
DecisionKs == {0, 5}

\* a live embedding: of another dimension than the offline one
LiveVec == [i \in 1..(StubDim + 1) |-> IF i = 1 THEN 1 ELSE 0]

\* what the provider does with the requests of one call, in order (embed,
\* generate, embed): it is down, answers with nothing, answers, fails
\* after the first request, recovers after the first request
ProviderRuns ==
  {<<Raises, ChatRaises, Raises>>,
   <<Returns(<<>>), ChatReturns(<<" ">>), Returns(<<>>)>>,
   <<Returns(LiveVec), ChatReturns(<<" ", "ok", " ">>), Returns(LiveVec)>>,
   <<Returns(LiveVec), ChatRaises, Raises>>,
   <<Raises, ChatReturns(<<" ", "ok", " ">>), Returns(LiveVec)>>}

\* the same for the embed calls of process_survey
SurveyOuts ==
  {NoProvider, [i \in 1..5 |-> Returns(LiveVec)],
   [i \in 1..5 |-> IF i = 1 THEN Returns(LiveVec) ELSE Raises]}

EngineAnswers ==
  {With(NoAnswers, "catchphrase", StrV(<<"go">>)),
   With(NoAnswers, "example_decision1", StrV(<<"took", " ", "it">>)),
   With(NoAnswers, "mbti_ei", NoneV)}

\* without an SDK the provider is never asked
Asked(outs, none) == live \/ \A i \in 1..Len(outs) : outs[i] = none

\* twin.set_gemini_key(key): configured when the key is not empty and the
\* SDK imports and configures
SetGeminiKey(configured) ==
  /\ live' = configured
  /\ last' = [NoCall EXCEPT !.op = "key", !.outcome = "ok", !.pre = memories,
                            !.prePersona = persona]
  /\ UNCHANGED <<memories, persona>>

\* (a variant: the reply stored without its role)
ChatStoredUntagged(corpus, reply, a_emb) ==
  Append(corpus, MemoryItem("chat", reply, a_emb, NoMeta, FALSE))

\* the store after chat has its reply
ChatStored(corpus, reply, a_emb) ==
  Append(corpus, MemoryItem("chat", reply, a_emb, RoleMeta("assistant"), FALSE))

ChatReturned == last.op = "chat" /\ last.outcome = "ok"

\* twin.chat(message, k): o1 and o2 are the provider's answers to the two
\* embed calls, oc its answer to the generation call
DoChat(message, k, o1, oc, o2) ==
  \E q_emb \in {Embed(<<message>>, live, <<o1>>)[1]} :
  \E corpus \in {ChatCorpus(memories, message, q_emb)} :
  \E found \in {Search(corpus, q_emb, k, NoFilter)} :
    /\ IF found.raised
       THEN /\ memories' = corpus
            /\ last' = [NoCall EXCEPT !.op = "chat", !.outcome = "raise",
                                      !.arg = message, !.k = k, !.pre = memories,
                                      !.prePersona = persona, !.corpus = corpus]
       ELSE \E system_prompt \in
                 {ChatSystemPrompt(persona, ChatContextLines(Items(corpus, found.hits)),
                                   Catchphrases(corpus))} :
            \E reply \in {GeminiChat(system_prompt, message, live, oc)} :
            \E a_emb \in {Embed(<<reply>>, live, <<o2>>)[1]} :
              /\ memories' = ChatStored(corpus, reply, a_emb)
              /\ last' = [NoCall EXCEPT !.op = "chat", !.outcome = "ok",
                                        !.arg = message, !.k = k, !.pre = memories,
                                        !.prePersona = persona, !.corpus = corpus,
                                        !.hits = found.hits, !.prompt = system_prompt,
                                        !.ret = reply]
    /\ UNCHANGED <<persona, live>>

\* twin.simulate_decision(situation, k, store)
DoSimulate(situation, k, store, o1, oc, o2) ==
  \E q_emb \in {Embed(<<situation>>, live, <<o1>>)[1]} :
  \E relevant_decisions \in {Search(memories, q_emb, k, <<"decision">>)} :
  \E survey_ctx \in {Search(memories, q_emb, SurveyTopK, <<"survey">>)} :
  \E relevant_chats \in {Search(memories, q_emb, Max(LineCap, k), <<"chat">>)} :
    /\ IF relevant_decisions.raised \/ survey_ctx.raised \/ relevant_chats.raised
       THEN /\ memories' = memories
            /\ last' = [NoCall EXCEPT !.op = "simulate", !.outcome = "raise",
                                      !.arg = situation, !.k = k, !.store = store,
                                      !.pre = memories, !.prePersona = persona]
       ELSE \E user_prefs \in {UserPrefs(memories, relevant_chats.hits)} :
            \E system_prompt \in
                 {DecisionSystemPrompt(persona, Items(memories, relevant_decisions.hits),
                                       Items(memories, survey_ctx.hits),
                                       Items(memories, user_prefs),
                                       Catchphrases(memories))} :
            \E reply \in {GeminiChat(system_prompt, situation, live, oc)} :
            \E emb \in {Embed(<<reply>>, live, <<o2>>)[1]} :
              /\ memories' = DecisionStored(memories, reply, emb, store)
              /\ last' = [NoCall EXCEPT !.op = "simulate", !.outcome = "ok",
                                        !.arg = situation, !.k = k, !.store = store,
                                        !.pre = memories, !.prePersona = persona,
                                        !.decisions = relevant_decisions.hits,
                                        !.survey = survey_ctx.hits,
                                        !.prefs = user_prefs,
                                        !.prompt = system_prompt, !.ret = reply]
    /\ UNCHANGED <<persona, live>>

Next ==
  \/ \E answers \in EngineAnswers, outs \in SurveyOuts :
       /\ Len(memories) + Len(SurveyEntries(persona, answers)) <= MaxMem
       /\ Asked(outs, Raises)
       /\ DoSurvey(answers, outs)
  \/ \E message \in Messages, k \in ChatKs, run \in ProviderRuns :
       /\ Len(memories) + 2 <= MaxMem
       /\ Asked(<<run[1], run[3]>>, Raises) /\ Asked(<<run[2]>>, ChatRaises)
       /\ DoChat(message, k, run[1], run[2], run[3])
  \/ \E situation \in Situations, k \in DecisionKs, store \in BOOLEAN,
        run \in ProviderRuns :
       /\ store => Len(memories) + 1 <= MaxMem
       /\ Asked(<<run[1], run[3]>>, Raises) /\ Asked(<<run[2]>>, ChatRaises)
       /\ DoSimulate(situation, k, store, run[1], run[2], run[3])
  \/ \E configured \in BOOLEAN : SetGeminiKey(configured)
  \* a record is added to the store directly: one of a type that is not a
  \* memory type after a chat, or a correction after the first survey
  \/ \/ ChatReturned /\ BankAdd("note", <<1, 0>>, FALSE)
     \/ /\ last.op = "survey" /\ last.pre = <<>>
        /\ BankAdd("correction", StubVec(<<"m">>), FALSE)
  \* the store is searched directly after an add
  \/ last.op = "add" /\ BankSearch(StubVec(<<"hi">>), 1, NoFilter)
  \* the memory viewer deletes the message of the chat just made
  \/ ChatReturned /\ BankDelete(Len(memories) - 2)

Spec == Init /\ [][Next]_vars

(***************************************************************************)
(* The client alone: embed on lists of texts.                              *)
(***************************************************************************)
MaxTexts == 2

TextPool == {<<"hi">>, <<"go", " ">>, <<>>}

\* the lists of texts embed is given, the empty list included
EmbedTexts == UNION {[1..n -> TextPool] : n \in 0..MaxTexts}

\* what the provider does with one embed_content call: it raises, it
\* returns no or an empty embedding, it returns an embedding
EmbedOuts ==
  {Raises, Returns(<<>>), Returns(LiveVec), Returns([i \in 1..(StubDim + 1) |-> 1])}

\* gemini.embed(texts): outs[i] is the provider's answer for texts[i]
DoEmbed(texts, outs) ==
  /\ last' = [NoCall EXCEPT !.op = "embed", !.outcome = "ok", !.pre = memories,
                            !.prePersona = persona, !.texts = texts, !.outs = outs,
                            !.vecs = Embed(texts, live, outs)]
  /\ UNCHANGED <<memories, persona, live>>

NextEmbed ==
  \/ \E texts \in EmbedTexts : \E outs \in [1..Len(texts) -> EmbedOuts] :
       /\ Asked(outs, Raises)
       /\ DoEmbed(texts, outs)
  \/ \E configured \in BOOLEAN : SetGeminiKey(configured)

SpecEmbed == Init /\ [][NextEmbed]_vars

(***************************************************************************)
(* Long conversations: chats, offline, after at most one survey, on a      *)
(* store that grows beyond the number of lines chat puts in its prompt.    *)
(***************************************************************************)
MaxLog == 8

\* top_k below and above the number of lines of the prompt
LogKs == {2, 6}

NextLog ==
  \/ \E answers \in EngineAnswers :
       /\ memories = <<>>
       /\ DoSurvey(answers, NoProvider)
  \/ \E message \in Messages, k \in LogKs :
       /\ Len(memories) + 2 <= MaxLog
       /\ DoChat(message, k, Raises, ChatRaises, Raises)

SpecLog == Init /\ [][NextLog]_vars

(***************************************************************************)
(* Properties of search (SpecBank).                                        *)
(***************************************************************************)
SearchReturned == last.op = "search" /\ last.outcome = "ok"

Eligible(i) ==
  ~Truthy(last.filter) \/ last.pre[i].type = last.filter[1]

HitScore(i) == CosineSimilarity(last.arg, last.pre[i].embedding)

\* what a returned list of positions must be for a top_k that asks for n
\* records: stored records of the kind, each once, best first, ties in
\* insertion order, nothing better left out
RankedHits(n) ==
  LET hits == last.hits
  IN /\ Len(hits) <= n
     /\ \A j \in 1..Len(hits) : hits[j] \in 1..Len(last.pre) /\ Eligible(hits[j])
     /\ \A i, j \in 1..Len(hits) :
          i < j => /\ hits[i] # hits[j]
                   /\ ~SimGt(HitScore(hits[j]), HitScore(hits[i]))
                   /\ (SimEq(HitScore(hits[i]), HitScore(hits[j])) => hits[i] < hits[j])
     /\ \A i \in 1..Len(last.pre) :
          (Eligible(i) /\ \A j \in 1..Len(hits) : hits[j] # i)
            => /\ Len(hits) = n
               /\ \A j \in 1..Len(hits) :
                    /\ ~SimGt(HitScore(i), HitScore(hits[j]))
                    /\ (SimEq(HitScore(i), HitScore(hits[j])) => hits[j] < i)

\* C2: for every store, query, kind filter and top_k, what search returns is
\* at most top_k records (none for a top_k below 0), all stored records of
\* the filtered kind, in descending similarity, equal similarities in
\* insertion order, and no eligible record left out beats a returned one.
C2_SearchRanksTopK == SearchReturned => RankedHits(Max(last.k, 0))

\* the same for the top_k the callers can mean, top_k >= 0
SearchRanksTopKNonNegative == (SearchReturned /\ last.k >= 0) => RankedHits(last.k)

\* a pair of vectors for which the similarity is defined as 0.0
Degenerate(a, b) ==
  Len(a) = 0 \/ Len(b) = 0 \/ NormSq(a) = 0 \/ NormSq(b) = 0 \/ Len(a) # Len(b)

\* C3: the similarity of the query and a stored embedding is 0.0 whenever
\* one of them is zero-length or zero-norm or their lengths differ, and
\* neither the similarity computation nor search raises.
C3_SimilarityTotal ==
  last.op = "search" =>
    /\ last.outcome = "ok"
    /\ \A i \in 1..Len(last.pre) :
         (Eligible(i) /\ Degenerate(last.arg, last.pre[i].embedding))
           => /\ ~CosineRaises(last.arg, last.pre[i].embedding)
              /\ SimEq(HitScore(i), SimZero)

\* the part of C3 the code keeps: zero-length and zero-norm vectors
SimilarityZeroOnEmptyOrZeroNorm ==
  last.op = "search" =>
    \A i \in 1..Len(last.pre) :
      LET a == last.arg
          b == last.pre[i].embedding
      IN (Len(a) = 0 \/ Len(b) = 0 \/ NormSq(a) = 0 \/ NormSq(b) = 0)
           => ~CosineRaises(a, b) /\ SimEq(HitScore(i), SimZero)

(***************************************************************************)
(* Properties of chat and simulate_decision (Spec).                        *)
(***************************************************************************)
SimulateReturned == last.op = "simulate" /\ last.outcome = "ok"

\* C1: whatever the provider does, between or within calls, every chat and
\* simulate_decision call returns a text and raises nothing.
C1_AlwaysReplies ==
  last.op \in {"chat", "simulate"} => last.outcome = "ok" /\ last.ret # <<>>

\* the records a call has appended to the store it found
Appended == SubSeq(memories, Len(last.pre) + 1, Len(memories))

IsChatRecord(m, role, text) ==
  m.type = "chat" /\ <<"role", role>> \in m.meta /\ m.text = text

\* C4: after chat(message) has returned, the store is the store before the
\* call followed by exactly two records: a chat record tagged role=user
\* with the message, then a chat record tagged role=assistant with the
\* returned reply.
C4_ChatAppendsTurn ==
  ChatReturned =>
    /\ Len(memories) = Len(last.pre) + 2
    /\ SubSeq(memories, 1, Len(last.pre)) = last.pre
    /\ IsChatRecord(Appended[1], "user", last.arg)
    /\ IsChatRecord(Appended[2], "assistant", last.ret)

\* a chat returned on a store that held records, with the provider's reply
C4_Witness ==
  ChatReturned /\ last.pre # <<>> /\ last.ret = <<"ok">> /\ last.arg = <<"go", " ">>

\* C5: the store that the retrieval of chat(message) scans is the store
\* before the call followed by the role=user record of the message, and
\* nothing else: the record can be retrieved for its own message, and the
\* role=assistant record of the call is not in it but is stored after it.
C5_ChatSearchesOwnMessage ==
  last.op = "chat" =>
    /\ Len(last.corpus) = Len(last.pre) + 1
    /\ SubSeq(last.corpus, 1, Len(last.pre)) = last.pre
    /\ IsChatRecord(last.corpus[Len(last.corpus)], "user", last.arg)
    /\ \A j \in 1..Len(last.hits) : last.hits[j] \in 1..Len(last.corpus)
    /\ SubSeq(memories, 1, Len(last.corpus)) = last.corpus
    /\ ChatReturned =>
         /\ Len(memories) = Len(last.corpus) + 1
         /\ IsChatRecord(memories[Len(memories)], "assistant", last.ret)

\* a chat whose retrieval returned the record of its own message, from a
\* store that held records
C5_Witness ==
  /\ ChatReturned /\ last.pre # <<>>
  /\ \E j \in 1..Len(last.hits) : last.hits[j] = Len(last.corpus)

\* C6: simulate_decision(situation, store) returns the reply for both
\* values of store; with store the store is then the store before plus one
\* decision record, not permanent, with the reply; without it the store is
\* unchanged; the persona is unchanged.
SimulateEffect ==
  /\ last.ret # <<>>
  /\ persona = last.prePersona
  /\ IF last.store
     THEN /\ Len(memories) = Len(last.pre) + 1
          /\ SubSeq(memories, 1, Len(last.pre)) = last.pre
          /\ Appended[1].type = "decision" /\ Appended[1].text = last.ret
          /\ ~Appended[1].permanent
     ELSE memories = last.pre

C6_SimulateStoresReply == last.op = "simulate" => last.outcome = "ok" /\ SimulateEffect

\* what C6 says of the calls that return
SimulateStoresReplyOnReturn == SimulateReturned => SimulateEffect

\* the places of a token in a text
Places(text, token) == {i \in 1..Len(text) : text[i] = token}

\* a block of the prompt: its header once and a "- " entry under it when
\* something was retrieved for it, no header otherwise
BlockMatches(header, retrieved) ==
  IF retrieved # <<>>
  THEN /\ Cardinality(Places(last.prompt, header)) = 1
       /\ \A i \in Places(last.prompt, header) :
            i < Len(last.prompt) /\ last.prompt[i + 1] = "- "
  ELSE Places(last.prompt, header) = {}

\* C7: in the prompt of simulate_decision each of the three context blocks
\* (past decisions, survey context, user chat preferences) is there if and
\* only if something was retrieved for it, and a header never stands
\* without an entry under it.
C7_BlocksIffRetrieved ==
  SimulateReturned =>
    /\ BlockMatches(DecisionsHeader, last.decisions)
    /\ BlockMatches(SurveyHeader, last.survey)
    /\ BlockMatches(PrefsHeader, last.prefs)

\* a decision simulated on a store that holds a decision record, of which
\* none is retrieved, while survey and user chat records are
C7_Witness ==
  /\ SimulateReturned
  /\ \E i \in 1..Len(last.pre) : last.pre[i].type = "decision"
  /\ last.decisions = <<>> /\ last.survey # <<>> /\ last.prefs # <<>>

(***************************************************************************)
(* Properties of process_survey (SpecSurvey).                              *)
(***************************************************************************)
SurveyCalled == last.op = "survey"
SurveyReturned == SurveyCalled /\ last.outcome = "ok"

\* a free-text answer as the survey means it: trimmed, empty when there is
\* none
TextAnswer(answers, key) ==
  IF Has(answers, key) /\ answers[key].t # "none"
  THEN Strip(StrOf(answers[key])) ELSE <<>>

IsGiven(key) == TextAnswer(last.answers, key) # <<>>

\* the records a survey is to append: the catchphrase if given, the
\* example decisions given, in the order 1, 2, 3, and the summary last
SurveyAppended ==
  \E catch \in {IF IsGiven("catchphrase") THEN 1 ELSE 0} :
  \E given \in {SelectSeq(ExampleKeys, IsGiven)} :
    /\ Len(Appended) = catch + Len(given) + 1
    /\ Len(Appended) \in 1..5
    /\ SubSeq(memories, 1, Len(last.pre)) = last.pre
    /\ catch = 1 =>
         /\ Appended[1].type = "survey"
         /\ Appended[1].text =
              <<"Catchphrase: ">> \o TextAnswer(last.answers, "catchphrase")
    /\ \A i \in 1..Len(given) :
         /\ Appended[catch + i].type = "decision"
         /\ Appended[catch + i].text = TextAnswer(last.answers, given[i])
    /\ Appended[Len(Appended)].type = "survey"
    /\ ~IsCatchphrase(Appended[Len(Appended)])

\* C8: every process_survey call appends, in this order and nothing else, a
\* survey record for the catchphrase iff it is non-empty after trimming, a
\* decision record for each non-empty example decision in the order 1, 2,
\* 3, and one survey summary record last: between 1 and 5 records.
C8_SurveyAppendsInOrder == SurveyCalled => SurveyAppended

\* no free-text answer is null
TextsAreTexts ==
  \A key \in {"catchphrase"} \cup {ExampleKeys[i] : i \in 1..Len(ExampleKeys)} :
    Has(last.answers, key) => last.answers[key].t # "none"

\* what C8 says of the calls that return, when no free text is null
SurveyAppendsInOrderOnReturn == SurveyReturned /\ TextsAreTexts => SurveyAppended

\* the answers with every Likert answer that is null or not a number
\* replaced by the midpoint
Neutral(answers) ==
  [key \in DOMAIN answers |->
     IF key \in LikertKeys /\ ~IntOf(answers[key]).ok THEN IntV(LikertDefault)
     ELSE answers[key]]

DerivedAsNeutral ==
  persona = [SurveyPersona(last.prePersona, Neutral(last.answers))
               EXCEPT !.survey_json = last.answers]

\* C9: process_survey completes without error for every answer mapping,
\* and a Likert answer (tone, values, decision, trait or type-code axis)
\* that is missing, null or not a number counts as the midpoint 3.
C9_DerivationNeverFails ==
  SurveyCalled => last.outcome = "ok" /\ DerivedAsNeutral

\* what C9 says of the calls that return
DerivationNeutralOnReturn == SurveyReturned => DerivedAsNeutral

\* C10, as stated: after process_survey(answers) has returned, every field
\* of the persona, user_name included, is what an engine just constructed
\* gets from the same answers.
C10_PersonaFromAnswersAlone ==
  SurveyReturned => persona = SurveyPersona(NewPersona(<<"You">>), last.answers)

\* C10, amended: after process_survey(answers) has returned, every field of
\* the persona but user_name (summary, tone, values, humor, decision style,
\* type code, raw survey) is determined by answers alone, and user_name is
\* the one from before the call.
C10_PersonaFromAnswersButName ==
  SurveyReturned =>
    \A derived \in {DerivePersonaFields(last.answers)} :
      /\ persona.survey_json = last.answers
      /\ persona.persona_summary = derived.persona_summary
      /\ persona.tone_style = derived.tone
      /\ persona.values = derived.values
      /\ persona.humor = derived.humor
      /\ persona.decision_style = derived.decision_style
      /\ persona.mbti = derived.mbti
      /\ persona.user_name = last.prePersona.user_name

\* a survey returned on an engine that had a name set and an earlier
\* survey with other answers behind it
C10_Witness ==
  /\ SurveyReturned
  /\ last.prePersona.user_name = <<"Ann">>
  /\ last.prePersona.mbti # <<>>
  /\ last.prePersona.humor # persona.humor
  /\ last.prePersona.mbti # persona.mbti

\* the record a survey stored last
SummaryRecord == memories[Len(memories)]

\* C11, as stated: the text of the survey record that process_survey stores
\* last is the persona summary the same call has derived (the sentence
\* with tone, top values, humor, decision style and the four trait scores).
C11_SummaryRecordIsPersonaSummary ==
  SurveyReturned => SummaryRecord.text = persona.persona_summary

\* C11, amended: the text of the survey record that process_survey stores
\* last is a rendering of its own, "Tone: .. Values: .. Decision Style: ..
\* Humor: .. MBTI: ..", of the tone, values, decision style, humor and type
\* code the same call has derived; it is not the persona summary.
C11_SummaryRecordIsFieldDigest ==
  SurveyReturned =>
    \A derived \in {DerivePersonaFields(last.answers)} :
      /\ SummaryRecord.type = "survey"
      /\ SummaryRecord.text =
           <<"Tone: ">> \o derived.tone \o <<". Values: ">> \o derived.values
           \o <<". Decision Style: ">> \o derived.decision_style
           \o <<". Humor: ">> \o derived.humor
           \o <<". MBTI: ">> \o derived.mbti \o <<".">>
      /\ SummaryRecord.text # derived.persona_summary

\* a survey with every slider at 5, a catchphrase and two example decisions
\* has returned
C11_Witness ==
  /\ SurveyReturned
  /\ Len(Appended) = 4
  /\ persona.mbti = <<"E", "N", "F", "P">>

(***************************************************************************)
(* Properties of delete and clear (SpecBank).                              *)
(***************************************************************************)
\* C12: delete(idx) raises nothing; with idx outside 0..len-1, negative idx
\* included, it leaves the store as it was; with idx inside it removes the
\* record at position idx (counted from 0) and keeps the others in order.
C12_DeleteRemovesOneOrNothing ==
  last.op = "delete" =>
    /\ last.outcome = "ok"
    /\ IF 0 <= last.k /\ last.k < Len(last.pre)
       THEN /\ Len(memories) = Len(last.pre) - 1
            /\ \A j \in 1..Len(memories) :
                 memories[j] = IF j <= last.k THEN last.pre[j] ELSE last.pre[j + 1]
       ELSE memories = last.pre

\* the middle one of three records, all different, has been deleted
C12_Witness ==
  /\ last.op = "delete" /\ last.k = 1 /\ Len(last.pre) = 3
  /\ last.pre[1] # last.pre[2] /\ last.pre[2] # last.pre[3] /\ last.pre[1] # last.pre[3]

\* a negative index has been given for a store that holds records
DeleteNegativeWitness == last.op = "delete" /\ last.k < 0 /\ Len(last.pre) >= 2

\* the positions of the permanent records before the call
PermanentPlaces == {i \in 1..Len(last.pre) : last.pre[i].permanent}

\* the j-th of them
PermanentPlace(j) ==
  CHOOSE i \in PermanentPlaces : Cardinality({x \in PermanentPlaces : x <= i}) = j

\* C13: after clear(keep_permanent=True) the store holds exactly the
\* records that were permanent, in the order they had; after
\* clear(keep_permanent=False) it is empty.
C13_ClearKeepsPermanent ==
  last.op = "clear" =>
    IF last.store
    THEN /\ Len(memories) = Cardinality(PermanentPlaces)
         /\ \A j \in 1..Len(memories) : memories[j] = last.pre[PermanentPlace(j)]
    ELSE memories = <<>>

\* clear(keep_permanent=True) on a store with two different permanent
\* records and one that is not permanent
C13_Witness ==
  /\ last.op = "clear" /\ last.store
  /\ Cardinality(PermanentPlaces) = 2 /\ Len(last.pre) = 3
  /\ last.pre[PermanentPlace(1)] # last.pre[PermanentPlace(2)]

(***************************************************************************)
(* The kinds of the records (Spec).                                        *)
(***************************************************************************)
\* C14: in every reachable state every record of the store has one of the
\* five memory types; constructing a record of another type raises and
\* adds nothing to the store, and no operation of the engine stores a
\* record of another type.
C14_KindsAreValid ==
  /\ \A i \in 1..Len(memories) : memories[i].type \in VALID_MEMORY_TYPES
  /\ last.op = "add" =>
       /\ last.outcome = "raise" <=> last.arg[1] \notin VALID_MEMORY_TYPES
       /\ last.outcome = "raise" => memories = last.pre

\* a record of another type has been refused on a store that holds survey
\* and chat records
C14_Witness ==
  /\ last.op = "add" /\ last.outcome = "raise"
  /\ \E i, j \in 1..Len(memories) :
       memories[i].type = "survey" /\ memories[j].type = "chat"

(***************************************************************************)
(* Properties of embed (SpecEmbed).                                        *)
(***************************************************************************)
EmbedCalled == last.op = "embed"

\* C15: embed(texts) returns one vector for each text, in the order of the
\* texts, and none of them is empty, whatever the provider does: a text for
\* which the provider raises or returns an empty embedding gets the
\* offline vector of the text.
C15_EmbedNeverEmpty ==
  EmbedCalled =>
    /\ Len(last.vecs) = Len(last.texts)
    /\ \A i \in 1..Len(last.vecs) :
         /\ last.vecs[i] # <<>>
         /\ last.vecs[i] \in {last.outs[i].embedding, StubVec(last.texts[i])}
         /\ (last.outs[i].raises \/ last.outs[i].embedding = <<>>)
              => last.vecs[i] = StubVec(last.texts[i])

\* what C15 says of a list of one text, the only lists the engine embeds
EmbedOneNeverEmpty ==
  EmbedCalled /\ Len(last.texts) = 1 =>
    /\ Len(last.vecs) = 1 /\ last.vecs[1] # <<>>
    /\ (last.outs[1].raises \/ last.outs[1].embedding = <<>>)
         => last.vecs[1] = StubVec(last.texts[1])

(***************************************************************************)
(* Atomicity and the frame of the operations (Spec).                       *)
(***************************************************************************)
EngineOps == {"survey", "chat", "simulate"}

\* C16: a process_survey, chat or simulate_decision call that ends with an
\* error leaves the store and the persona exactly as they were before it.
C16_ErrorLeavesStateAsBefore ==
  last.op \in EngineOps /\ last.outcome = "raise" =>
    memories = last.pre /\ persona = last.prePersona

\* C17: process_survey, chat, simulate_decision, add and search remove,
\* reorder and alter no record: the store before the call is a prefix of
\* the store after it, whether the call returns or raises.
C17_StoreBeforeIsPrefix ==
  last.op \in EngineOps \cup {"add", "search"} =>
    /\ Len(last.pre) <= Len(memories)
    /\ SubSeq(memories, 1, Len(last.pre)) = last.pre

\* a chat has added its two records to a store of two others
C17_Witness ==
  /\ ChatReturned /\ Len(last.pre) = 2 /\ Len(memories) = 4
  /\ last.pre[1] # last.pre[2]

(***************************************************************************)
(* The memory lines of the prompt of chat (SpecLog).                       *)
(***************************************************************************)
MemoriesHeader == "Relevant Memories:\n"

\* the part of the prompt of chat between the header of the memories and
\* the empty line that ends them
MemoryLines ==
  LET a == CHOOSE i \in Places(last.prompt, MemoriesHeader) : TRUE
      b == CHOOSE i \in Places(last.prompt, "\n\n") : i > a
  IN SubSeq(last.prompt, a + 1, b - 1)

\* one line "- KIND: text" for each of the first n records retrieved, in
\* the order of retrieval, a line break between two lines
LinesOfHits(n) ==
  Join([j \in 1..Min(n, Len(last.hits)) |->
          <<"- ", Upper(last.corpus[last.hits[j]].type), ": ">>
          \o last.corpus[last.hits[j]].text], "\n")

\* C18: for every top_k the prompt of chat(message, top_k) holds one memory
\* line, with the type of the record in front, for each record the search
\* has retrieved, in the order of retrieval, and no other memory line.
C18_OneLinePerRetrieved ==
  ChatReturned => MemoryLines = LinesOfHits(Len(last.hits))

\* what the prompt holds: the lines of the first five records retrieved
MemoryLinesOfFirstFive == ChatReturned => MemoryLines = LinesOfHits(LineCap)

\* a chat with top_k = 6 has retrieved six records
SixRetrieved == ChatReturned /\ last.k = 6 /\ Len(last.hits) = 6

====
